---------------------------- MODULE Spec2Model ----------------------------
(***************************************************************************)
(* A model of terminal_tattoo.py: the single-pass pipeline of main() and   *)
(* the pure helpers it is built from (colour validation and conversion,    *)
(* terminal pixel size, alpha clamping, position selection, fit check and  *)
(* anchor placement).                                                      *)
(*                                                                         *)
(* Python values are represented as follows.  A str is the sequence of its *)
(* characters (one-character strings).  None is the one-element sequence   *)
(* <<"None">>, which is no str because "None" is no character.  A tuple is *)
(* a sequence.  Where a slot may hold a bool or None (the result of        *)
(* fit_check) the value is the string "True", "False" or "None".           *)
(* A call ends in one of three ways: it returns a value, it calls          *)
(* sys.exit(code), or it raises an exception nobody catches.               *)
(***************************************************************************)
EXTENDS Integers, Sequences, FiniteSets, TLC

VARIABLES
    pc,         \* the statement of main() (or of a helper's driver) to run next
    args,       \* the argparse Namespace
    cols,       \* terminal columns, main's c
    lines,      \* terminal lines, main's l
    w,          \* canvas width in pixels
    h,          \* canvas height in pixels
    position,   \* main's position
    fg_color,   \* main's fg_color
    bg_color,   \* main's bg_color
    out_path,   \* main's out_path
    font,       \* main's font
    size,       \* main's size
    alpha,      \* main's alpha
    margin,     \* main's margin
    text_w,     \* main's render_text_width
    text_h,     \* main's render_text_height
    image,      \* main's render_bg_image
    outcome,    \* how the run ended (kind "running" while it has not)
    call,       \* the arguments of a helper called on its own
    result      \* what that helper call produced

vars == <<pc, args, cols, lines, w, h, position, fg_color, bg_color, out_path,
          font, size, alpha, margin, text_w, text_h, image, outcome, call, result>>

mainVars == <<args, cols, lines, w, h, position, fg_color, bg_color, out_path,
              font, size, alpha, margin, text_w, text_h, image, outcome>>

-----------------------------------------------------------------------------
(* Python values and call outcomes *)

None == <<"None">>

Return(v) == [kind |-> "return", val |-> v, code |-> 0, exc |-> "-"]

Exit(c) == [kind |-> "exit", val |-> None, code |-> c, exc |-> "-"]

Raise(e) == [kind |-> "raise", val |-> None, code |-> 1, exc |-> e]

Running == [kind |-> "running", val |-> None, code |-> 0, exc |-> "-"]

-----------------------------------------------------------------------------
(* Program constants *)

\* a path is kept as path.splitext gives it: <<root, extension>>
DEFAULT_FONT == <<"/System/Library/Fonts/Menlo", ".ttc">>
DEFAULT_SIZE == 45
DEFAULT_POS == "tR"
DEFAULT_FGC == <<"f", "K">>
DEFAULT_BGC == <<"b", "W">>

POSITION_CODES == <<"pT", "pTL", "pTR", "pB", "pBL", "pBR", "pC", "pL", "pR">>

RETINA_HCELL_PIXELS == 14
RETINA_VCELL_PIXELS == 28
RETINA_H_OFFSET == 20
RETINA_V_OFFSET == 14

EXIT_INVALID_FG == -1
EXIT_INVALID_BG == -2
EXIT_DOES_NOT_FIT == -3

-----------------------------------------------------------------------------
(* Characters, int(s, 16) and the regular expressions *)

DecDigits == <<"0", "1", "2", "3", "4", "5", "6", "7", "8", "9">>
LowerHex == <<"a", "b", "c", "d", "e", "f">>
UpperHex == <<"A", "B", "C", "D", "E", "F">>

Range(s) == {s[i] : i \in 1..Len(s)}

IndexOf(s, c) == CHOOSE i \in 1..Len(s) : s[i] = c

\* the character class [0-9a-fA-F]
IsHexChar(c) == c \in Range(DecDigits) \cup Range(LowerHex) \cup Range(UpperHex)

\* the value int() gives one hexadecimal digit
HexVal(c) ==
    IF c \in Range(DecDigits) THEN IndexOf(DecDigits, c) - 1
    ELSE IF c \in Range(LowerHex) THEN IndexOf(LowerHex, c) + 9
    ELSE IndexOf(UpperHex, c) + 9

\* [0-9a-fA-F]{n} matches s at positions i .. i+n-1
HexRunAt(s, i, n) ==
    /\ i + n - 1 <= Len(s)
    /\ \A k \in i..(i + n - 1) : IsHexChar(s[k])

\* The match of  [#]?([0-9a-fA-F]{6})  that starts at position i of s, as
\* <<group(0), group(1)>>, or None.  The optional '#' is tried first; when the
\* six characters after it are not all hexadecimal the engine retries without
\* it, and then s[i] = "#" is itself no hexadecimal character.
ColorMatchAt(s, i) ==
    IF i <= Len(s) /\ s[i] = "#" /\ HexRunAt(s, i + 1, 6)
    THEN <<SubSeq(s, i, i + 6), SubSeq(s, i + 1, i + 6)>>
    ELSE IF HexRunAt(s, i, 6)
    THEN <<SubSeq(s, i, i + 5), SubSeq(s, i, i + 5)>>
    ELSE None

\* re.match(pattern, s): the match anchored at the start of s
re_match(s) == ColorMatchAt(s, 1)

\* re.search(pattern, s): the leftmost match anywhere in s
re_search(s) ==
    LET starts == {i \in 1..Len(s) : ColorMatchAt(s, i) # None}
    IN  IF starts = {} THEN None
        ELSE ColorMatchAt(s, CHOOSE i \in starts : \A j \in starts : i <= j)

hex_byte_to_int(hexbyte_string) ==
    16 * HexVal(hexbyte_string[1]) + HexVal(hexbyte_string[2])

html_to_888(html_str) ==
    IF HexRunAt(html_str, 1, 6)
    THEN Return(<<hex_byte_to_int(SubSeq(html_str, 1, 2)),
                  hex_byte_to_int(SubSeq(html_str, 3, 4)),
                  hex_byte_to_int(SubSeq(html_str, 5, 6))>>)
    ELSE Raise("AttributeError")

validate_html_color(color) ==
    IF color = None THEN Raise("TypeError")
    ELSE LET m == re_search(color)
         IN  IF m = None THEN Raise("AttributeError")
             ELSE Return(m[1] = color)

\* sanitize_html_color returning group(0), the '#' kept
sanitize_keeps_hash(code) ==
    LET m == re_match(code)
    IN  IF m = None THEN Raise("AttributeError") ELSE Return(m[1])

sanitize_html_color(code) ==
    LET m == re_match(code)
    IN  IF m = None THEN Raise("AttributeError") ELSE Return(m[2])

-----------------------------------------------------------------------------
(* The helpers of main() *)

\* get_terminal_pixel_size with the two cell sizes exchanged
pixel_size_cells_swapped(columns, lns, h_pix, v_pix, h_offset, v_offset) ==
    LET height == lns * h_pix + v_offset
        width == columns * v_pix + h_offset
    IN  <<width, height>>

get_terminal_pixel_size(columns, lns, h_pix, v_pix, h_offset, v_offset) ==
    LET height == lns * v_pix + v_offset
        width == columns * h_pix + h_offset
    IN  <<width, height>>

\* The attributes parse_args() sets on the Namespace: one per add_argument,
\* given on the command line or not.  "p in args" asks whether p is one.
NamespaceDests ==
    {"text", "s", "font", "verbose", "out_path", "alpha", "margin", "f", "b"}
    \cup Range(POSITION_CODES)
    \cup {"fR", "fG", "fB", "fW", "fK", "fC", "fM", "fY", "fg"}
    \cup {"bR", "bG", "bB", "bW", "bK", "bC", "bM", "bY", "bg"}

InNamespace(p, a) == p \in NamespaceDests

\* the for loop of check_position from POSITION_CODES[i] on
RECURSIVE PositionLoop(_, _, _)
PositionLoop(a, i, ret) ==
    IF i > Len(POSITION_CODES) THEN ret
    ELSE IF InNamespace(POSITION_CODES[i], a) THEN POSITION_CODES[i]
    ELSE PositionLoop(a, i + 1, ret)

check_position(a) == PositionLoop(a, 1, DEFAULT_POS)

\* getattr(args, color) == True for a store_true flag of the foreground group
FgFlagSet(a, color) == color # "f" /\ a.fflag = color

BgFlagSet(a, color) == a.bflag = color

FgColorArgs == <<"f", "fR", "fG", "fB", "fW", "fK", "fC", "fM", "fY", "fg">>

FgColorInHex ==
    [fR |-> <<"F", "F", "0", "0", "0", "0">>,
     fG |-> <<"0", "0", "F", "F", "0", "0">>,
     ff |-> <<"0", "0", "0", "0", "F", "F">>,
     fW |-> <<"F", "F", "F", "F", "F", "F">>,
     fK |-> <<"0", "0", "0", "0", "0", "0">>,
     fC |-> <<"0", "0", "F", "F", "F", "F">>,
     fM |-> <<"F", "F", "0", "0", "f", "f">>,
     fY |-> <<"F", "F", "F", "F", "0", "0">>,
     fg |-> <<"A", "9", "A", "9", "A", "9">>]

BgColorArgs == <<"bR", "bG", "bB", "bW", "bK", "bC", "bM", "bY", "bg">>

BgColorInHex ==
    [bR |-> <<"F", "F", "0", "0", "0", "0">>,
     bG |-> <<"0", "0", "F", "F", "0", "0">>,
     bB |-> <<"0", "0", "0", "0", "F", "F">>,
     bW |-> <<"F", "F", "F", "F", "F", "F">>,
     bK |-> <<"0", "0", "0", "0", "0", "0">>,
     bC |-> <<"0", "0", "F", "F", "F", "F">>,
     bM |-> <<"F", "F", "0", "0", "f", "f">>,
     bY |-> <<"F", "F", "F", "F", "0", "0">>,
     bg |-> <<"A", "9", "A", "9", "A", "9">>]

\* The preset loop of check_fg_color from color_args[i] on: every flag that is
\* set overwrites ret (there is no break); a flag color_in_hex has no entry
\* for raises KeyError.
RECURSIVE FgPresetLoop(_, _, _)
FgPresetLoop(a, i, ret) ==
    IF i > Len(FgColorArgs) THEN Return(ret)
    ELSE IF FgFlagSet(a, FgColorArgs[i])
    THEN IF FgColorArgs[i] \in DOMAIN FgColorInHex
         THEN FgPresetLoop(a, i + 1, FgColorInHex[FgColorArgs[i]])
         ELSE Raise("KeyError")
    ELSE FgPresetLoop(a, i + 1, ret)

RECURSIVE BgPresetLoop(_, _, _)
BgPresetLoop(a, i, ret) ==
    IF i > Len(BgColorArgs) THEN Return(ret)
    ELSE IF BgFlagSet(a, BgColorArgs[i])
    THEN IF BgColorArgs[i] \in DOMAIN BgColorInHex
         THEN BgPresetLoop(a, i + 1, BgColorInHex[BgColorArgs[i]])
         ELSE Raise("KeyError")
    ELSE BgPresetLoop(a, i + 1, ret)

\* the rest of a colour check once the explicit value is settled
FgFinish(a, ret) ==
    LET looped == FgPresetLoop(a, 1, ret)
    IN  IF looped.kind # "return" THEN looped
        ELSE sanitize_html_color(looped.val)

BgFinish(a, ret) ==
    LET looped == BgPresetLoop(a, 1, ret)
    IN  IF looped.kind # "return" THEN looped
        ELSE sanitize_html_color(looped.val)

check_fg_color(a) ==
    IF a.f # None
    THEN LET v == validate_html_color(a.b)
         IN  IF v.kind # "return" THEN v
             ELSE IF v.val THEN FgFinish(a, a.b)
             ELSE Exit(EXIT_INVALID_FG)
    ELSE FgFinish(a, DEFAULT_FGC)

check_bg_color(a) ==
    IF a.b # None
    THEN LET v == validate_html_color(a.b)
         IN  IF v.kind # "return" THEN v
             ELSE IF v.val THEN BgFinish(a, a.b)
             ELSE Exit(EXIT_INVALID_BG)
    ELSE BgFinish(a, DEFAULT_BGC)

\* check_alpha without the lower clamp
check_alpha_no_floor(a) ==
    IF a.alpha > 255 THEN 255 ELSE a.alpha

check_alpha(a) ==
    IF a.alpha > 255 THEN 255
    ELSE IF a.alpha < 0 THEN 0
    ELSE a.alpha

\* "not args.out_path" holds for None and for the empty string; the fallback
\* is the name of a temporary file that was closed again, plus '.png'
check_output_file(a, tmpname) ==
    IF a.out_path = None \/ a.out_path = <<>> THEN <<tmpname, ".png">>
    ELSE a.out_path

check_font(a, exists) ==
    IF a.font # None /\ a.font # <<>> /\ exists /\ a.font[2] \in {".ttf", ".ttc"}
    THEN a.font
    ELSE DEFAULT_FONT

\* "if args.s" is false for an absent -s and for -s 0
check_size(a) == IF a.has_s /\ a.s # 0 THEN a.s ELSE DEFAULT_SIZE

\* the body is a bare return
check_margin(a) == None

\* the body is a bare return: the result is None whatever the arguments
fit_check(render_text_width, render_text_height, mrg, cw, ch) == "None"

\* the body is a docstring and a bare return
get_text_anchor_pos(pos, tw, th, image_w, image_h) == None

\* Python's truth value of a result that is a bool or None
Truthy(v) == v = "True"

create_image(cw, ch, blanking_color) == [width |-> cw, height |-> ch, fill |-> blanking_color]

-----------------------------------------------------------------------------
(* Inputs of a run: the command line and what the environment answers *)

\* explicit colour strings given with --f or --b: a valid one, one the
\* pattern matches nowhere, and one it matches only in part
ExplicitColors ==
    { <<"1", "2", "3", "4", "5", "6">>,
      <<"G", "G", "H", "H", "I", "I">>,
      <<"1", "2", "3", "4", "5", "6", "7">> }

\* --f and the nine foreground flags exclude each other in the parser, and
\* so do --b and the nine background flags
FgSelections ==
    {[f |-> None, fflag |-> x] : x \in {"-"} \cup (Range(FgColorArgs) \ {"f"})}
    \cup {[f |-> c, fflag |-> "-"] : c \in ExplicitColors}

BgSelections ==
    {[b |-> None, bflag |-> x] : x \in {"-"} \cup Range(BgColorArgs)}
    \cup {[b |-> c, bflag |-> "-"] : c \in ExplicitColors}

PositionSelections == {"-"} \cup Range(POSITION_CODES)

AlphaArgs == {-10, 255, 300}

FontArgs == {None, <<"mine", ".ttf">>, <<"mine", ".txt">>}

OutPathArgs == {None, <<"out", ".png">>}

TermSizes == {<<80, 24>>, <<40, 10>>}

TextDims == {<<135, 45>>, <<1200, 45>>, <<135, 300>>}

ArgSets ==
    {[f |-> fs.f, fflag |-> fs.fflag, b |-> bs.b, bflag |-> bs.bflag,
      pflag |-> ps, alpha |-> al, has_s |-> hs, s |-> IF hs THEN 12 ELSE 0,
      font |-> fo, out_path |-> op, margin |-> 25] :
        fs \in FgSelections, bs \in BgSelections, ps \in PositionSelections,
        al \in AlphaArgs, hs \in BOOLEAN, fo \in FontArgs, op \in OutPathArgs}

\* the Namespace of a command line that gives the text and nothing else
DefaultArgs ==
    [f |-> None, fflag |-> "-", b |-> None, bflag |-> "-", pflag |-> "-",
     alpha |-> 255, has_s |-> FALSE, s |-> 0, font |-> None, out_path |-> None,
     margin |-> 25]

-----------------------------------------------------------------------------
(* main(), one action per statement *)

Init ==
    /\ pc = "parse_args"
    /\ args = DefaultArgs
    /\ cols = 0 /\ lines = 0 /\ w = 0 /\ h = 0
    /\ position = "-"
    /\ fg_color = None /\ bg_color = None
    /\ out_path = None /\ font = None
    /\ size = 0 /\ alpha = 0
    /\ margin = None
    /\ text_w = 0 /\ text_h = 0
    /\ image = None
    /\ outcome = Running
    /\ call = None
    /\ result = None

\* the run ends here: by sys.exit or by an exception nobody catches
Stop(o) == pc' = "done" /\ outcome' = o

\* parser.parse_args().  The verbosity branches that follow it (lines 131-145)
\* only set logging levels, and the joined text is used only to be measured.
ParseArgs ==
    /\ pc = "parse_args"
    /\ \E a \in ArgSets : args' = a
    /\ pc' = "get_terminal_size"
    /\ UNCHANGED <<cols, lines, w, h, position, fg_color, bg_color, out_path, font,
                   size, alpha, margin, text_w, text_h, image, outcome, call, result>>

\* os.get_terminal_size() raises OSError when the process has no terminal
GetTerminalSize ==
    /\ pc = "get_terminal_size"
    /\ \/ \E ts \in TermSizes :
            LET px == get_terminal_pixel_size(ts[1], ts[2], RETINA_HCELL_PIXELS,
                          RETINA_VCELL_PIXELS, RETINA_H_OFFSET, RETINA_V_OFFSET)
            IN  /\ cols' = ts[1] /\ lines' = ts[2]
                /\ w' = px[1] /\ h' = px[2]
                /\ pc' = "check_position"
                /\ UNCHANGED outcome
       \/ /\ Stop(Raise("OSError"))
          /\ UNCHANGED <<cols, lines, w, h>>
    /\ UNCHANGED <<args, position, fg_color, bg_color, out_path, font, size, alpha,
                   margin, text_w, text_h, image, call, result>>

CheckPosition ==
    /\ pc = "check_position"
    /\ position' = check_position(args)
    /\ pc' = "check_fg_color"
    /\ UNCHANGED <<args, cols, lines, w, h, fg_color, bg_color, out_path, font, size,
                   alpha, margin, text_w, text_h, image, outcome, call, result>>

CheckFgColor ==
    /\ pc = "check_fg_color"
    /\ LET o == check_fg_color(args)
       IN  IF o.kind = "return"
           THEN fg_color' = o.val /\ pc' = "check_bg_color" /\ UNCHANGED outcome
           ELSE Stop(o) /\ UNCHANGED fg_color
    /\ UNCHANGED <<args, cols, lines, w, h, position, bg_color, out_path, font, size,
                   alpha, margin, text_w, text_h, image, call, result>>

CheckBgColor ==
    /\ pc = "check_bg_color"
    /\ LET o == check_bg_color(args)
       IN  IF o.kind = "return"
           THEN bg_color' = o.val /\ pc' = "check_output_file" /\ UNCHANGED outcome
           ELSE Stop(o) /\ UNCHANGED bg_color
    /\ UNCHANGED <<args, cols, lines, w, h, position, fg_color, out_path, font, size,
                   alpha, margin, text_w, text_h, image, call, result>>

CheckOutputFile ==
    /\ pc = "check_output_file"
    /\ out_path' = check_output_file(args, "/tmp/tmpname")
    /\ pc' = "check_font"
    /\ UNCHANGED <<args, cols, lines, w, h, position, fg_color, bg_color, font, size,
                   alpha, margin, text_w, text_h, image, outcome, call, result>>

CheckFont ==
    /\ pc = "check_font"
    /\ \E exists \in BOOLEAN : font' = check_font(args, exists)
    /\ pc' = "check_size"
    /\ UNCHANGED <<args, cols, lines, w, h, position, fg_color, bg_color, out_path,
                   size, alpha, margin, text_w, text_h, image, outcome, call, result>>

CheckSize ==
    /\ pc = "check_size"
    /\ size' = check_size(args)
    /\ pc' = "check_alpha"
    /\ UNCHANGED <<args, cols, lines, w, h, position, fg_color, bg_color, out_path,
                   font, alpha, margin, text_w, text_h, image, outcome, call, result>>

CheckAlpha ==
    /\ pc = "check_alpha"
    /\ alpha' = check_alpha(args)
    /\ pc' = "check_margin"
    /\ UNCHANGED <<args, cols, lines, w, h, position, fg_color, bg_color, out_path,
                   font, size, margin, text_w, text_h, image, outcome, call, result>>

CheckMargin ==
    /\ pc = "check_margin"
    /\ margin' = check_margin(args)
    /\ pc' = "create_image"
    /\ UNCHANGED <<args, cols, lines, w, h, position, fg_color, bg_color, out_path,
                   font, size, alpha, text_w, text_h, image, outcome, call, result>>

CreateImage ==
    /\ pc = "create_image"
    /\ LET rgb == html_to_888(bg_color)
       IN  IF rgb.kind = "return"
           THEN /\ image' = create_image(w, h, rgb.val)
                /\ pc' = "create_font"
                /\ UNCHANGED outcome
           ELSE Stop(rgb) /\ UNCHANGED image
    /\ UNCHANGED <<args, cols, lines, w, h, position, fg_color, bg_color, out_path,
                   font, size, alpha, margin, text_w, text_h, call, result>>

\* ImageFont.truetype raises OSError when the font file cannot be opened
CreateFont ==
    /\ pc = "create_font"
    /\ \/ pc' = "get_text_dimensions" /\ UNCHANGED outcome
       \/ Stop(Raise("OSError"))
    /\ UNCHANGED <<args, cols, lines, w, h, position, fg_color, bg_color, out_path,
                   font, size, alpha, margin, text_w, text_h, image, call, result>>

\* font_obj.getsize(text): the bounding box the imaging library measures
GetTextDimensions ==
    /\ pc = "get_text_dimensions"
    /\ \E d \in TextDims : text_w' = d[1] /\ text_h' = d[2]
    /\ pc' = "fit_check"
    /\ UNCHANGED <<args, cols, lines, w, h, position, fg_color, bg_color, out_path,
                   font, size, alpha, margin, image, outcome, call, result>>

FitCheck ==
    /\ pc = "fit_check"
    /\ IF ~Truthy(fit_check(text_w, text_h, margin, w, h))
       THEN Stop(Exit(EXIT_DOES_NOT_FIT))
       ELSE Stop(Return(None))
    /\ UNCHANGED <<args, cols, lines, w, h, position, fg_color, bg_color, out_path,
                   font, size, alpha, margin, text_w, text_h, image, call, result>>

Next ==
    \/ ParseArgs
    \/ GetTerminalSize
    \/ CheckPosition
    \/ CheckFgColor
    \/ CheckBgColor
    \/ CheckOutputFile
    \/ CheckFont
    \/ CheckSize
    \/ CheckAlpha
    \/ CheckMargin
    \/ CreateImage
    \/ CreateFont
    \/ GetTextDimensions
    \/ FitCheck

Spec == Init /\ [][Next]_vars

-----------------------------------------------------------------------------
(* The colour helpers called on their own: validate, sanitize, convert, in *)
(* the order check_bg_color and main() apply them to an explicit colour.   *)

NumHexSamples == 3

SampleChars == <<"0", "F", "a", "9", "c", "B", "7", "e">>

HexSample == {SampleChars[i] : i \in 1..NumHexSamples}

SixHexStrings == [1..6 -> HexSample]

InvalidColors ==
    { <<>>,
      <<"1", "2", "3", "4", "5">>,
      <<"G", "G", "H", "H", "I", "I">>,
      <<"1", "2", "3", "4", "5", "6", "7">>,
      <<"z", "z", "1", "2", "3", "4", "5", "6">>,
      <<"#", "1", "2", "3", "4", "5", "G">>,
      <<"#", "#", "1", "2", "3", "4", "5", "6">>,
      <<"#", "1", "2", "3", "4", "5", "6", "7">> }

ColorInputs ==
    SixHexStrings \cup {<<"#">> \o x : x \in SixHexStrings} \cup InvalidColors

NoResults == [valid |-> Running, bare |-> Running, rgb |-> Running]

InitColor ==
    /\ pc = "validate_html_color"
    /\ call \in ColorInputs
    /\ result = NoResults
    /\ args = DefaultArgs
    /\ cols = 0 /\ lines = 0 /\ w = 0 /\ h = 0
    /\ position = "-"
    /\ fg_color = None /\ bg_color = None
    /\ out_path = None /\ font = None
    /\ size = 0 /\ alpha = 0
    /\ margin = None
    /\ text_w = 0 /\ text_h = 0
    /\ image = None
    /\ outcome = Running

ValidateColor ==
    /\ pc = "validate_html_color"
    /\ LET v == validate_html_color(call)
       IN  /\ result' = [result EXCEPT !.valid = v]
           /\ pc' = IF v.kind = "return" /\ v.val THEN "sanitize_html_color"
                    ELSE "returned"
    /\ UNCHANGED <<call, mainVars>>

SanitizeColor ==
    /\ pc = "sanitize_html_color"
    /\ LET b == sanitize_html_color(call)
       IN  /\ result' = [result EXCEPT !.bare = b]
           /\ pc' = IF b.kind = "return" THEN "html_to_888" ELSE "returned"
    /\ UNCHANGED <<call, mainVars>>

ConvertColor ==
    /\ pc = "html_to_888"
    /\ result' = [result EXCEPT !.rgb = html_to_888(result.bare.val)]
    /\ pc' = "returned"
    /\ UNCHANGED <<call, mainVars>>

NextColor == ValidateColor \/ SanitizeColor \/ ConvertColor

SpecColor == InitColor /\ [][NextColor]_vars

-----------------------------------------------------------------------------
(* check_alpha called on its own *)

AlphaSpan == 50

InitAlpha ==
    /\ pc = "check_alpha"
    /\ \E x \in (0 - AlphaSpan)..(255 + AlphaSpan) :
            args = [DefaultArgs EXCEPT !.alpha = x]
    /\ call = None
    /\ result = 0
    /\ cols = 0 /\ lines = 0 /\ w = 0 /\ h = 0
    /\ position = "-"
    /\ fg_color = None /\ bg_color = None
    /\ out_path = None /\ font = None
    /\ size = 0 /\ alpha = 0
    /\ margin = None
    /\ text_w = 0 /\ text_h = 0
    /\ image = None
    /\ outcome = Running

CallCheckAlpha ==
    /\ pc = "check_alpha"
    /\ result' = check_alpha(args)
    /\ pc' = "returned"
    /\ UNCHANGED <<call, mainVars>>

NextAlpha == CallCheckAlpha

SpecAlpha == InitAlpha /\ [][NextAlpha]_vars

-----------------------------------------------------------------------------
(* get_terminal_pixel_size called on its own *)

MaxColumns == 3
MaxLines == 3
MaxCell == 2
MaxOffset == 1

RetinaProfile ==
    <<RETINA_HCELL_PIXELS, RETINA_VCELL_PIXELS, RETINA_H_OFFSET, RETINA_V_OFFSET>>

CellProfiles ==
    {RetinaProfile} \cup ((0..MaxCell) \X (0..MaxCell) \X (0..MaxOffset) \X (0..MaxOffset))

InitDims ==
    /\ pc = "get_terminal_pixel_size"
    /\ \E c \in (1..MaxColumns) \cup {80}, l \in (1..MaxLines) \cup {24},
          p \in CellProfiles :
            call = [columns |-> c, lns |-> l, h_pix |-> p[1], v_pix |-> p[2],
                    h_offset |-> p[3], v_offset |-> p[4]]
    /\ result = None
    /\ args = DefaultArgs
    /\ cols = 0 /\ lines = 0 /\ w = 0 /\ h = 0
    /\ position = "-"
    /\ fg_color = None /\ bg_color = None
    /\ out_path = None /\ font = None
    /\ size = 0 /\ alpha = 0
    /\ margin = None
    /\ text_w = 0 /\ text_h = 0
    /\ image = None
    /\ outcome = Running

CallGetTerminalPixelSize ==
    /\ pc = "get_terminal_pixel_size"
    /\ result' = get_terminal_pixel_size(call.columns, call.lns, call.h_pix,
                     call.v_pix, call.h_offset, call.v_offset)
    /\ pc' = "returned"
    /\ UNCHANGED <<call, mainVars>>

NextDims == CallGetTerminalPixelSize

SpecDims == InitDims /\ [][NextDims]_vars

-----------------------------------------------------------------------------
(* get_text_anchor_pos called on its own *)

AnchorCalls ==
    {[pos |-> p, text_w |-> d[1], text_h |-> d[2], image_w |-> c[1], image_h |-> c[2]] :
        p \in Range(POSITION_CODES),
        d \in {<<100, 20>>, <<135, 45>>, <<700, 20>>},
        c \in {<<800, 400>>, <<1140, 686>>, <<580, 294>>}}

InitAnchor ==
    /\ pc = "get_text_anchor_pos"
    /\ call \in AnchorCalls
    /\ result = None
    /\ args = DefaultArgs
    /\ cols = 0 /\ lines = 0 /\ w = 0 /\ h = 0
    /\ position = "-"
    /\ fg_color = None /\ bg_color = None
    /\ out_path = None /\ font = None
    /\ size = 0 /\ alpha = 0
    /\ margin = None
    /\ text_w = 0 /\ text_h = 0
    /\ image = None
    /\ outcome = Running

CallGetTextAnchorPos ==
    /\ pc = "get_text_anchor_pos"
    /\ result' = get_text_anchor_pos(call.pos, call.text_w, call.text_h,
                                     call.image_w, call.image_h)
    /\ pc' = "returned"
    /\ UNCHANGED <<call, mainVars>>

NextAnchor == CallGetTextAnchorPos

SpecAnchor == InitAnchor /\ [][NextAnchor]_vars

-----------------------------------------------------------------------------
(* Properties *)

\* check_position has run in this state
PositionDone == position # "-"

\* check_fg_color has run: it returned, or it ended the run
FgDone == PositionDone /\ pc # "check_fg_color"

\* check_bg_color has run
BgDone == fg_color # None /\ pc # "check_bg_color"

\* the fit check has run
FitDone == text_w # 0 /\ pc = "done"

\* how check_fg_color ended in this run
FgOutcome == IF fg_color # None THEN Return(fg_color) ELSE outcome

\* how check_bg_color ended in this run
BgOutcome == IF bg_color # None THEN Return(bg_color) ELSE outcome

\* a colour string as the specification accepts it: six hexadecimal
\* characters after one optional leading '#'
IsSixHex(x) == Len(x) = 6 /\ \A i \in 1..6 : IsHexChar(x[i])

StripHash(x) == IF Len(x) > 0 /\ x[1] = "#" THEN Tail(x) ELSE x

WellFormedColor(x) == IsSixHex(StripHash(x))

ToUpper(c) == IF c \in Range(LowerHex) THEN UpperHex[IndexOf(LowerHex, c)] ELSE c

Upper(x) == [i \in 1..Len(x) |-> ToUpper(x[i])]

\* the documented preset table, by flag
PresetHex ==
    [fR |-> <<"F", "F", "0", "0", "0", "0">>, bR |-> <<"F", "F", "0", "0", "0", "0">>,
     fG |-> <<"0", "0", "F", "F", "0", "0">>, bG |-> <<"0", "0", "F", "F", "0", "0">>,
     fB |-> <<"0", "0", "0", "0", "F", "F">>, bB |-> <<"0", "0", "0", "0", "F", "F">>,
     fW |-> <<"F", "F", "F", "F", "F", "F">>, bW |-> <<"F", "F", "F", "F", "F", "F">>,
     fK |-> <<"0", "0", "0", "0", "0", "0">>, bK |-> <<"0", "0", "0", "0", "0", "0">>,
     fC |-> <<"0", "0", "F", "F", "F", "F">>, bC |-> <<"0", "0", "F", "F", "F", "F">>,
     fM |-> <<"F", "F", "0", "0", "F", "F">>, bM |-> <<"F", "F", "0", "0", "F", "F">>,
     fY |-> <<"F", "F", "F", "F", "0", "0">>, bY |-> <<"F", "F", "F", "F", "0", "0">>,
     fg |-> <<"A", "9", "A", "9", "A", "9">>, bg |-> <<"A", "9", "A", "9", "A", "9">>]

PresetRGB ==
    [fR |-> <<255, 0, 0>>, bR |-> <<255, 0, 0>>,
     fG |-> <<0, 255, 0>>, bG |-> <<0, 255, 0>>,
     fB |-> <<0, 0, 255>>, bB |-> <<0, 0, 255>>,
     fW |-> <<255, 255, 255>>, bW |-> <<255, 255, 255>>,
     fK |-> <<0, 0, 0>>, bK |-> <<0, 0, 0>>,
     fC |-> <<0, 255, 255>>, bC |-> <<0, 255, 255>>,
     fM |-> <<255, 0, 255>>, bM |-> <<255, 0, 255>>,
     fY |-> <<255, 255, 0>>, bY |-> <<255, 255, 0>>,
     fg |-> <<169, 169, 169>>, bg |-> <<169, 169, 169>>]

\* the text box fits the canvas with the margin asked for on the command line
Fits == text_w + 2 * args.margin <= w /\ text_h + 2 * args.margin <= h

\* a command line with no colour flag and no position flag, default margin
PlainArgs ==
    /\ args.f = None /\ args.fflag = "-"
    /\ args.b = None /\ args.bflag = "-"
    /\ args.pflag = "-"
    /\ args.margin = 25

\* the run ended because the environment failed: no terminal, or a font file
\* that cannot be opened
EnvironmentFailed == outcome.kind = "raise" /\ outcome.exc = "OSError"

\* C1: a run with valid text, no colour flag, no position flag, the default
\* margin 25 and a text box that fits resolves the anchor to top-right, the
\* foreground to 000000 and the background to FFFFFF, passes every stage and
\* ends with exit code 0, never through an error exit or an unhandled failure.
C1_PlainRunExitsZero ==
    (pc # "parse_args" /\ PlainArgs /\ ~EnvironmentFailed) =>
        /\ PositionDone => position \in {"pTR", DEFAULT_POS}
        /\ outcome.kind # "raise"
        /\ (outcome.kind = "exit" => (FitDone /\ ~Fits))
        /\ fg_color # None => fg_color = <<"0", "0", "0", "0", "0", "0">>
        /\ bg_color # None => bg_color = <<"F", "F", "F", "F", "F", "F">>
        /\ (pc = "done" /\ Fits) => (FitDone /\ outcome = Return(None))

\* C2: a run that reaches the fit check aborts with EXIT_DOES_NOT_FIT (-3) if
\* and only if textWidth + 2*margin > canvasWidth or textHeight + 2*margin >
\* canvasHeight.
C2_AbortsIffDoesNotFit ==
    FitDone =>
        ((outcome.kind = "exit" /\ outcome.code = -3)
            <=> (text_w + 2 * args.margin > w \/ text_h + 2 * args.margin > h))

\* the top-left coordinate the specification gives an anchor, margin 25
AnchorX(c) ==
    IF c.pos \in {"pTL", "pBL", "pL"} THEN 25
    ELSE IF c.pos \in {"pTR", "pBR", "pR"} THEN c.image_w - c.text_w - 25
    ELSE (c.image_w - c.text_w) \div 2

AnchorY(c) ==
    IF c.pos \in {"pT", "pTL", "pTR"} THEN 25
    ELSE IF c.pos \in {"pB", "pBL", "pBR"} THEN c.image_h - c.text_h - 25
    ELSE (c.image_h - c.text_h) \div 2

\* C3: for each of the nine anchors get_text_anchor_pos returns the top-left
\* coordinate (x, y): x is the margin for left anchors, image_w - text_w -
\* margin for right anchors and (image_w - text_w)/2 for centred ones, and y
\* likewise from the top, the bottom or the centre row.
C3_AnchorCoordinate ==
    pc = "returned" => result = <<AnchorX(call), AnchorY(call)>>

\* C4: an explicit colour string that is not six hexadecimal characters after
\* one optional '#' never yields a colour: validate_html_color gives False and
\* the run ends with exit code -1 when it was the foreground (--f) and -2 when
\* it was the background (--b).
C4_InvalidColorExits ==
    /\ (FgDone /\ args.f # None /\ ~WellFormedColor(args.f)) =>
            /\ validate_html_color(args.f) = Return(FALSE)
            /\ FgOutcome = Exit(-1)
    /\ (BgDone /\ args.b # None /\ ~WellFormedColor(args.b)) =>
            /\ validate_html_color(args.b) = Return(FALSE)
            /\ BgOutcome = Exit(-2)

\* C5: each of the nine presets, selected as the foreground or as the
\* background, resolves to its table constant (compared case-insensitively),
\* which decomposes to the corresponding (r, g, b); no preset ends in an error.
C5_PresetsResolve ==
    /\ (FgDone /\ args.fflag # "-") =>
            /\ fg_color # None
            /\ Upper(fg_color) = PresetHex[args.fflag]
            /\ html_to_888(fg_color) = Return(PresetRGB[args.fflag])
    /\ (BgDone /\ args.bflag # "-") =>
            /\ bg_color # None
            /\ Upper(bg_color) = PresetHex[args.bflag]
            /\ html_to_888(bg_color) = Return(PresetRGB[args.bflag])

\* C6: check_position returns the anchor of the one position flag selected on
\* the command line and the default top-right anchor when none was selected.
C6_PositionIsSelected ==
    PositionDone =>
        IF args.pflag = "-" THEN position \in {"pTR", DEFAULT_POS}
        ELSE position = args.pflag

\* C7: for every string of six hexadecimal characters, the string and '#'
\* followed by it are both accepted by validate_html_color, sanitize_html_color
\* maps both to the bare six characters (case kept), and html_to_888 of that
\* is the triple of its three 2-character groups read in base 16, each 0..255.
C7_HexNormalises ==
    LET hx == StripHash(call)
        triple == <<16 * HexVal(hx[1]) + HexVal(hx[2]),
                    16 * HexVal(hx[3]) + HexVal(hx[4]),
                    16 * HexVal(hx[5]) + HexVal(hx[6])>>
    IN  IsSixHex(hx) =>
            /\ pc # "validate_html_color" =>
                    (result.valid.kind = "return" /\ result.valid.val = TRUE)
            /\ pc \in {"html_to_888", "returned"} => result.bare = Return(hx)
            /\ pc = "returned" =>
                    /\ result.rgb = Return(triple)
                    /\ \A i \in 1..3 : result.rgb.val[i] \in 0..255

C7_Witness ==
    /\ pc = "returned"
    /\ call = <<"#", "F", "a", "0", "0", "a", "F">>
    /\ result.valid.kind = "return" /\ result.valid.val = TRUE
    /\ result.bare = Return(<<"F", "a", "0", "0", "a", "F">>)
    /\ result.rgb = Return(<<250, 0, 175>>)

Min(x, y) == IF x < y THEN x ELSE y
Max(x, y) == IF x > y THEN x ELSE y

\* C8: check_alpha returns min(255, max(0, alpha)): below 0 gives 0, above 255
\* gives 255, 0..255 is returned unchanged; no alpha value is rejected.
C8_AlphaClamped ==
    pc = "returned" =>
        /\ result = Min(255, Max(0, args.alpha))
        /\ args.alpha < 0 => result = 0
        /\ args.alpha > 255 => result = 255
        /\ args.alpha \in 0..255 => result = args.alpha

C8_Witness ==
    /\ pc = "returned"
    /\ args.alpha = 300
    /\ result = 255

\* C9: get_terminal_pixel_size returns width = columns * horizontalPixelsPerCell
\* + horizontalOffset and height = rows * verticalPixelsPerCell +
\* verticalOffset; with the retina profile (14, 28, 20, 14) both are > 0, and
\* 80 columns by 24 rows give 1140 by 686.
C9_PixelSizeLinear ==
    pc = "returned" =>
        /\ result[1] = call.columns * call.h_pix + call.h_offset
        /\ result[2] = call.lns * call.v_pix + call.v_offset
        /\ RetinaProfile = <<14, 28, 20, 14>>
        /\ <<call.h_pix, call.v_pix, call.h_offset, call.v_offset>> = RetinaProfile =>
                /\ result[1] > 0 /\ result[2] > 0
                /\ (call.columns = 80 /\ call.lns = 24) => result = <<1140, 686>>

C9_Witness ==
    /\ pc = "returned"
    /\ call.columns = 80 /\ call.lns = 24
    /\ <<call.h_pix, call.v_pix, call.h_offset, call.v_offset>> = <<14, 28, 20, 14>>
    /\ result = <<1140, 686>>

\* C10: the foreground result is a function of the foreground selection only:
\* a run with the same foreground selection and any other background
\* selection gives check_fg_color the same outcome.
C10_FgIgnoresBackground ==
    FgDone =>
        \A bs \in BgSelections :
            check_fg_color([args EXCEPT !.b = bs.b, !.bflag = bs.bflag]) = FgOutcome

=============================================================================
